---- MODULE Spec2Model ----
(***************************************************************************)
(* A model of the spin resolution engine of the FoodTruck slot game        *)
(* (client/src/lib/gameEngine.ts, the first GameEngine class of the file). *)
(*                                                                         *)
(* Money is counted in quarter dollars (Dollar == 4) so that the low ante  *)
(* multiplier 1.25 stays an integer operation; every amount the engine     *)
(* computes from an integer bet is a multiple of 0.25 and exact in a       *)
(* JavaScript number.                                                      *)
(*                                                                         *)
(* Math.random() is a nondeterministic input.  A grid fill draws its       *)
(* symbols from a "plan" (see PlanDraw): the first `run` draws land on one *)
(* symbol and the rest cycle through the food symbols.  The plans bound    *)
(* the outcomes explored, not the code.                                    *)
(***************************************************************************)
EXTENDS Integers, Sequences, FiniteSets, TLC

(***************************************************************************)
(* Configuration (symbols.json, gameConfig.json; values as documented in   *)
(* README.md)                                                              *)
(***************************************************************************)
Dollar == 4

ROWS == 5

COLS == 6

minWinSymbols == 8

minBet == 1

maxBet == 100

defaultBet == 10

\* lowAnteMultiplier = 1.25 = 5/4
lowAnteMultiplierNum == 5

lowAnteMultiplierDen == 4

highAnteMultiplier == 5

Tiers == {"12+", "10-11", "8-9"}

\* An absent entry of a payouts table (undefined in the source).
Undefined == -1

StdPayouts == [t \in Tiers |-> CASE t = "12+" -> 50 [] t = "10-11" -> 25 [] OTHER -> 10]

NoPayouts == [t \in Tiers |-> Undefined]

Food(id, w) == [id |-> id, weight |-> w, hasPayouts |-> TRUE, payouts |-> StdPayouts, isScatter |-> FALSE]

\* symbolsConfig.symbols, in catalog order.
symbols ==
  << Food("burger", 15), Food("drink", 15), Food("pie", 14), Food("pizza", 13),
     Food("taco", 12), Food("fries", 11), Food("burrito", 10), Food("hotdog", 9),
     Food("chicken", 8),
     [id |-> "scatter", weight |-> 3, hasPayouts |-> FALSE, payouts |-> NoPayouts, isScatter |-> TRUE] >>

\* The list kept without its filter.
foodSymbols_Unfiltered == symbols

\* this.foodSymbols = this.symbols.filter(s => !s.isScatter)
foodSymbols == SelectSeq(symbols, LAMBDA s : ~s.isScatter)

RECURSIVE SumWeights(_, _)
SumWeights(syms, n) == IF n = 0 THEN 0 ELSE SumWeights(syms, n - 1) + syms[n].weight

\* this.foodTotalWeight
foodTotalWeight == SumWeights(foodSymbols, Len(foodSymbols))

SymbolIds == {symbols[i].id : i \in 1..Len(symbols)}

FoodIds == {foodSymbols[i].id : i \in 1..Len(foodSymbols)}

\* The catalog entry a cell's symbol copy was made from; the engine never
\* mutates a copy, so the copy's fields are the entry's.
SymbolDef(id) == symbols[CHOOSE i \in 1..Len(symbols) : symbols[i].id = id]

(***************************************************************************)
(* Weighted sampler                                                        *)
(***************************************************************************)
RECURSIVE WalkWeights(_, _, _, _)
WalkWeights(syms, roll, i, accumulated) ==
  IF i > Len(syms) THEN syms[Len(syms)]
  ELSE IF roll < accumulated + syms[i].weight THEN syms[i]
  ELSE WalkWeights(syms, roll, i + 1, accumulated + syms[i].weight)

\* roll = Math.random() * foodTotalWeight, by its integer part.
getRandomFoodSymbol(roll) == WalkWeights(foodSymbols, roll, 1, 0)

\* roll = Math.random() * total over this.symbols; no method calls it.
getRandomSymbolWithScatter(roll) == WalkWeights(symbols, roll, 1, 0)

\* The smallest roll that selects the i-th food symbol.
RollOf(i) == SumWeights(foodSymbols, i - 1)

(***************************************************************************)
(* Grid                                                                    *)
(***************************************************************************)
Rows == 0..(ROWS - 1)

Cols == 0..(COLS - 1)

\* The null a cleared position holds.
Null == [symbol |-> "", row |-> -1, col |-> -1]

IsNull(cell) == cell = Null \/ cell.symbol = ""

Positions == {<<r, c>> : r \in Rows, c \in Cols}

\* Row-major scan order, as the nested for loops visit the positions.
ScanOrder == [i \in 1..(ROWS * COLS) |-> <<(i - 1) \div COLS, (i - 1) % COLS>>]

ScanIndex(r, c) == r * COLS + c + 1

cloneGrid(g) == [r \in DOMAIN g |-> [c \in DOMAIN g[r] |-> g[r][c]]]

(***************************************************************************)
(* Win detection and payout                                                *)
(***************************************************************************)
\* The cells the scan does not skip, in scan order, as copied into a group.
ScannedCells(g) ==
  LET all == [i \in 1..(ROWS * COLS) |-> g[ScanOrder[i][1]][ScanOrder[i][2]]]
  IN  SelectSeq(all, LAMBDA cell : ~IsNull(cell) /\ ~SymbolDef(cell.symbol).isScatter)

RECURSIVE FirstSeen(_, _, _)
\* The keys of the groups Map in insertion order.
FirstSeen(cells, i, acc) ==
  IF i > Len(cells) THEN acc
  ELSE IF \E k \in 1..Len(acc) : acc[k] = cells[i].symbol
       THEN FirstSeen(cells, i + 1, acc)
       ELSE FirstSeen(cells, i + 1, Append(acc, cells[i].symbol))

\* The threshold test written cells.length <= minWinSymbols.
IsWinningGroup_Strict(n) == ~(n <= minWinSymbols)

\* if (cells.length < symbolsConfig.minWinSymbols) return;
IsWinningGroup(n) == ~(n < minWinSymbols)

findWinningCombinations(g) ==
  LET cells  == ScannedCells(g)
      keys   == FirstSeen(cells, 1, <<>>)
      group(sid) == SelectSeq(cells, LAMBDA cell : cell.symbol = sid)
      winKeys == SelectSeq(keys, LAMBDA sid : IsWinningGroup(Len(group(sid))) /\ sid \in FoodIds)
  IN  [k \in 1..Len(winKeys) |->
         [symbol |-> winKeys[k], cells |-> group(winKeys[k]),
          count |-> Len(group(winKeys[k])), payout |-> 0]]

\* symbol.payouts[tier] ?? 0
TierOrZero(symbol, tier) ==
  IF symbol.payouts[tier] = Undefined THEN 0 ELSE symbol.payouts[tier]

\* A missing entry passed over for the next lower tier.
calculatePayout_FallsThrough(symbol, count) ==
  IF ~symbol.hasPayouts THEN 0
  ELSE IF count >= 12 /\ symbol.payouts["12+"] # Undefined THEN symbol.payouts["12+"]
  ELSE IF count >= 10 /\ symbol.payouts["10-11"] # Undefined THEN symbol.payouts["10-11"]
  ELSE IF count >= 8 THEN TierOrZero(symbol, "8-9")
  ELSE 0

calculatePayout(symbol, count) ==
  IF ~symbol.hasPayouts THEN 0
  ELSE IF count >= 12 THEN TierOrZero(symbol, "12+")
  ELSE IF count >= 10 THEN TierOrZero(symbol, "10-11")
  ELSE IF count >= 8 THEN TierOrZero(symbol, "8-9")
  ELSE 0

(***************************************************************************)
(* More configuration (gameConfig.json)                                    *)
(***************************************************************************)
normalMinQuantity == 8

normalMaxQuantity == 15

normalTipMultipliers == <<2, 3, 5, 10, 25, 50>>

freeSpinsMinOrders == 3

freeSpinsMaxOrders == 6

freeSpinsMinQuantity == 8

freeSpinsMaxQuantity == 15

superBonusMultiplier == 100

scatterTrigger == 3

\* lowAnteScatterBoost = 1.5 = 3/2
lowAnteScatterBoostNum == 3

lowAnteScatterBoostDen == 2

highAnteScatterBoost == 3

spinsAwarded == 10

cheapPackage == [cost |-> 50, spins |-> 5, maxOrders |-> 3, tipMultipliers |-> <<2, 3, 5>>]

standardPackage == [cost |-> 100, spins |-> 10, maxOrders |-> 6, tipMultipliers |-> <<2, 3, 5, 10, 25, 50>>]

(***************************************************************************)
(* Bounds of the model                                                     *)
(***************************************************************************)
\* Calls of one run that change this.state (a spin that starts, a purchase, an
\* accepted setBet or setAnteMode to another value); calls that change nothing
\* are not counted.
MaxOps == 2

\* Cascade steps explored within one spin.
MaxCascades == 2

\* Food symbols an order may land on (indices into foodSymbols).
OrderSyms == <<1, 2>>

\* Lengths of a plan's run: on a fresh grid they give the run's symbol 7, 8
\* and 12 cells.
RunChoices == {4, 5, 9}

\* Food symbols a plan's run lands on (indices into foodSymbols).
RunSyms == {1}

Plans == {[sym |-> s, run |-> k] : s \in RunSyms, k \in RunChoices}

\* The plans of a refill: a run of 9 burgers (a burger win again), or a run of
\* 7 pizzas: with the two pizzas of a fresh grid, which the first drop moves
\* down, they make a win of dropped and new cells; alone, 7 cells and no win.
RefillPlans == {[sym |-> 1, run |-> 9], [sym |-> 4, run |-> 7]}

\* Balances (in dollars) the run starts from besides the constructor's.
LowBalances == {12, 500}

\* Amounts (in dollars) handed to setBet.
BetInputs == {0, 1, 101}

\* Math.random() outcomes for one order: symbol (an index into OrderSyms),
\* quantity, and the tip draw in sixths (Math.random() = tip / 6).
OrderDraws ==
  { [sym |-> 1, quantity |-> normalMinQuantity, tip |-> 0],
    [sym |-> 2, quantity |-> normalMaxQuantity, tip |-> 5] }

(***************************************************************************)
(* Random draws of a fill                                                  *)
(***************************************************************************)
\* The roll of the j-th getRandomFoodSymbol() call (j from 0) of one fill.
PlanDraw(plan, j) ==
  IF j < plan.run THEN RollOf(plan.sym) ELSE RollOf((j % Len(foodSymbols)) + 1)

NewCell(plan, j, r, c) ==
  [symbol |-> getRandomFoodSymbol(PlanDraw(plan, j)).id, row |-> r, col |-> c]

generateInitialGrid(plan) ==
  [r \in Rows |-> [c \in Cols |-> NewCell(plan, ScanIndex(r, c) - 1, r, c)]]

\* How many empty positions the fill loop has met before (r, c).
EmptyRank(g, r, c) ==
  Cardinality({i \in 1..(ScanIndex(r, c) - 1) : IsNull(g[ScanOrder[i][1]][ScanOrder[i][2]])})

\* The fill loop started at row 1.
fillEmptySpaces_SkipsTopRow(g, plan) ==
  [r \in Rows |-> [c \in Cols |->
     IF IsNull(g[r][c]) /\ r > 0 THEN NewCell(plan, EmptyRank(g, r, c), r, c) ELSE g[r][c]]]

\* The first three cells of a refill drawn as scatters, as a sampler over the
\* whole catalog can.
fillEmptySpaces_WithScatter(g, plan) ==
  [r \in Rows |-> [c \in Cols |->
     IF IsNull(g[r][c])
     THEN IF EmptyRank(g, r, c) < 3
          THEN [symbol |-> "scatter", row |-> r, col |-> c]
          ELSE NewCell(plan, EmptyRank(g, r, c), r, c)
     ELSE g[r][c]]]

\* The null test left out: every position is given a new cell.
fillEmptySpaces_Overwrites(g, plan) ==
  [r \in Rows |-> [c \in Cols |-> NewCell(plan, ScanIndex(r, c) - 1, r, c)]]

fillEmptySpaces(g, plan) ==
  [r \in Rows |-> [c \in Cols |->
     IF IsNull(g[r][c]) THEN NewCell(plan, EmptyRank(g, r, c), r, c) ELSE g[r][c]]]

\* The guard written on truthy coordinates (cell.row && ...): row 0 is skipped.
removeWinningSymbols_SkipsRowZero(g, wins) ==
  LET cleared == UNION {{<<wins[k].cells[i].row, wins[k].cells[i].col>> : i \in 1..Len(wins[k].cells)} :
                          k \in 1..Len(wins)}
  IN  [r \in Rows |-> [c \in Cols |-> IF <<r, c>> \in cleared /\ r # 0 THEN Null ELSE g[r][c]]]

removeWinningSymbols(g, wins) ==
  LET cleared == UNION {{<<wins[k].cells[i].row, wins[k].cells[i].col>> : i \in 1..Len(wins[k].cells)} :
                          k \in 1..Len(wins)}
  IN  [r \in Rows |-> [c \in Cols |-> IF <<r, c>> \in cleared THEN Null ELSE g[r][c]]]

\* The column collected top to bottom.
Survivors_TopDown(g, c) ==
  SelectSeq([i \in 1..ROWS |-> g[i - 1][c]], LAMBDA cell : ~IsNull(cell))

\* The non-null cells of column c, bottom to top.
Survivors(g, c) ==
  SelectSeq([i \in 1..ROWS |-> g[ROWS - i][c]], LAMBDA cell : ~IsNull(cell))

\* The cells moved without the writes to cell.row and cell.col.
dropSymbols_KeepsFields(g) ==
  [r \in Rows |-> [c \in Cols |->
     LET survivors == Survivors(g, c)
         k == ROWS - r
     IN  IF k <= Len(survivors) THEN survivors[k] ELSE Null]]

dropSymbols(g) ==
  [r \in Rows |-> [c \in Cols |->
     LET survivors == Survivors(g, c)
         k == ROWS - r
     IN  IF k <= Len(survivors)
         THEN [survivors[k] EXCEPT !.row = r, !.col = c]
         ELSE Null]]

(***************************************************************************)
(* Orders                                                                  *)
(***************************************************************************)
\* Math.random() * 100 of generateOrder's chance test, by its integer part.
ChanceRolls == {0, 99}

\* The else-if branch for 'high' left out.
orderChance_NoHighBranch(mode) == IF mode = "low" THEN 25 ELSE 15

\* orderChance in percent: normalMode.chance, lowAnteOrderChance, highAnteOrderChance
orderChance(mode) == CASE mode = "low" -> 25 [] mode = "high" -> 100 [] OTHER -> 15

NewOrder(symIndex, quantity, tipMultiplier) ==
  [symbolId |-> foodSymbols[symIndex].id, quantity |-> quantity, collected |-> 0,
   tipMultiplier |-> tipMultiplier, completed |-> FALSE]

\* tipMultipliers[Math.floor(Math.random() * tipMultipliers.length)]
PickTip(tipMultipliers, sixths) == tipMultipliers[((sixths * Len(tipMultipliers)) \div 6) + 1]

\* The orders list generateOrder leaves when spin() has just emptied it.
generateOrder(mode, chanceRoll, d) ==
  IF chanceRoll < orderChance(mode)
  THEN << NewOrder(OrderSyms[d.sym], d.quantity, PickTip(normalTipMultipliers, d.tip)) >>
  ELSE << >>

\* The loop of triggerFreeSpins and buyFreeSpins: n orders; the draws of the
\* i-th order follow from one draw d (its symbol cycles through OrderSyms).
OrderBatch(n, d, tipMultipliers) ==
  [i \in 1..n |->
     NewOrder(OrderSyms[((d.sym + i - 2) % Len(OrderSyms)) + 1], d.quantity,
              PickTip(tipMultipliers, d.tip))]

Min(a, b) == IF a < b THEN a ELSE b

Max(a, b) == IF a > b THEN a ELSE b

\* order.collected += count, without the Math.min cap.
updateOrderProgress_Uncapped(os, symbolId, count) ==
  [i \in DOMAIN os |->
     IF os[i].symbolId = symbolId /\ ~os[i].completed
     THEN [os[i] EXCEPT !.collected = os[i].collected + count]
     ELSE os[i]]

\* Only the first order on the symbol advanced (a find in place of the loop).
updateOrderProgress_FirstMatchOnly(os, symbolId, count) ==
  [i \in DOMAIN os |->
     IF /\ os[i].symbolId = symbolId /\ ~os[i].completed
        /\ \A j \in 1..(i - 1) : ~(os[j].symbolId = symbolId /\ ~os[j].completed)
     THEN [os[i] EXCEPT !.collected = Min(os[i].collected + count, os[i].quantity)]
     ELSE os[i]]

updateOrderProgress(os, symbolId, count) ==
  [i \in DOMAIN os |->
     IF os[i].symbolId = symbolId /\ ~os[i].completed
     THEN [os[i] EXCEPT !.collected = Min(os[i].collected + count, os[i].quantity)]
     ELSE os[i]]

\* The test without its !order.completed.
OrderDue_IgnoresCompleted(o) == o.collected >= o.quantity

\* The test with > in place of >=.
OrderDue_Exceeds(o) == o.collected > o.quantity /\ ~o.completed

OrderDue(o) == o.collected >= o.quantity /\ ~o.completed

RECURSIVE SumTips(_, _, _)
\* The tips of the orders of os[1..n] that the completion loop pays.
SumTips(os, n, bet) ==
  IF n = 0 THEN 0
  ELSE SumTips(os, n - 1, bet) + (IF OrderDue(os[n]) THEN bet * os[n].tipMultiplier ELSE 0)

\* The orders kept when none was completed.
checkOrderCompletion_KeepsUnmet(os, freeSpins, bet) ==
  [orders |-> [i \in DOMAIN os |-> IF OrderDue(os[i]) THEN [os[i] EXCEPT !.completed = TRUE] ELSE os[i]],
   tips   |-> SumTips(os, Len(os), bet)]

\* The normal-mode branch taken in free-spin mode as well.
checkOrderCompletion_ClearsInFreeSpins(os, freeSpins, bet) ==
  [orders |-> IF \E i \in DOMAIN os : OrderDue(os[i])
              THEN [i \in DOMAIN os |-> IF OrderDue(os[i]) THEN [os[i] EXCEPT !.completed = TRUE] ELSE os[i]]
              ELSE << >>,
   tips   |-> SumTips(os, Len(os), bet)]

\* checkOrderCompletion: the orders it leaves and the tips it pays.
checkOrderCompletion(os, freeSpins, bet) ==
  LET marked == [i \in DOMAIN os |-> IF OrderDue(os[i]) THEN [os[i] EXCEPT !.completed = TRUE] ELSE os[i]]
      anyCompleted == \E i \in DOMAIN os : OrderDue(os[i])
  IN  [orders |-> IF ~freeSpins /\ ~anyCompleted THEN << >> ELSE marked,
       tips   |-> SumTips(os, Len(os), bet)]

\* The every(order => order.completed) test left out.
checkAllOrdersCompletion_AnyOrders(os, bet) ==
  IF Len(os) > 0 THEN bet * superBonusMultiplier ELSE 0

\* checkAllOrdersCompletion: the super bonus it pays (it always empties orders).
checkAllOrdersCompletion(os, bet) ==
  IF (\A i \in DOMAIN os : os[i].completed) /\ Len(os) > 0
  THEN bet * superBonusMultiplier
  ELSE 0

(***************************************************************************)
(* The engine                                                              *)
(***************************************************************************)
VARIABLES
  grid, balance, currentBet, totalWin, isSpinning, isFreeSpins,
  freeSpinsRemaining, orders, anteMode, cascadeSteps,   \* this.state
  pc,       \* where spin() stands: "idle", "cascade" (inside processCascades), "await"
  result,   \* processCascades' cascadeCount, totalWin and allWins
  ops,      \* calls made so far that changed this.state
  last,     \* the latest step: the call or engine step, what it saw and answered
  spun,     \* a spin has completed
  hist,     \* the latest spin: what spin() found when it started and when it resumed
  probe     \* input and output of the pure function applied, or the snapshot a caller holds

state == <<grid, balance, currentBet, totalWin, isSpinning, isFreeSpins,
           freeSpinsRemaining, orders, anteMode, cascadeSteps>>

vars == <<grid, balance, currentBet, totalWin, isSpinning, isFreeSpins,
          freeSpinsRemaining, orders, anteMode, cascadeSteps, pc, result, ops, last, spun, hist, probe>>

NoProbe == [fn |-> "none", grid |-> << >>, symbol |-> symbols[1], count |-> 0,
            wins |-> << >>, payout |-> 0, dropped |-> << >>, done |-> FALSE]

NoResult == [wins |-> << >>, cascades |-> 0, totalWin |-> 0]

\* { wins: [], cascades: 0, totalWin: 0 }
ZeroResult == [wins |-> << >>, cascades |-> 0, totalWin |-> 0]

\* A step's record: op names the call (or "cascade", "settle" for the engine's
\* own steps), arg its argument, isSpinning the flag as the step found it,
\* outcome "ok", "throw", "zero" (the reentrant answer), "pending" (a promise
\* not yet resolved) or "resolved", value the record a spin() that answered at
\* once resolved to.
Step(op, arg, outcome) ==
  [op |-> op, arg |-> arg, outcome |-> outcome, isSpinning |-> isSpinning, value |-> NoResult]

BetArg(amount) ==
  CASE amount = 0 -> "0" [] amount = 1 -> "1" [] amount = 101 -> "101" [] OTHER -> "other"

\* No spin yet.  start* are the fields as spin() found them at its entry,
\* startGrid the grid it generated and startOps the count of calls with the
\* spin; settle* the fields as it found them when it resumed after its await,
\* settleCalls the calls and statements it then ran, in their order.
NoSpin ==
  [startFreeSpins |-> FALSE, startAnte |-> "none", startBet |-> 0, startBalance |-> 0,
   startGrid |-> << >>, startOps |-> 0,
   settleBalance |-> 0, settleFreeSpins |-> FALSE, settleRemaining |-> 0,
   settleOrders |-> << >>, settleCalls |-> << >>]

\* The constructor's balance, in dollars.
initialBalance == 1000000

\* initializeState(); the balance is the constructor's or one that play has
\* brought down (LowBalances).
Init ==
  /\ grid = generateInitialGrid([sym |-> 1, run |-> 9])
  /\ balance \in {b * Dollar : b \in {initialBalance} \cup LowBalances}
  /\ currentBet = defaultBet * Dollar
  /\ totalWin = 0
  /\ isSpinning = FALSE
  /\ isFreeSpins = FALSE
  /\ freeSpinsRemaining = 0
  /\ orders = << >>
  /\ anteMode = "none"
  /\ cascadeSteps = << >>
  /\ pc = "idle"
  /\ result = NoResult
  /\ ops = 0
  /\ last = [op |-> "new", arg |-> "", outcome |-> "ok", isSpinning |-> FALSE, value |-> NoResult]
  /\ spun = FALSE
  /\ hist = NoSpin
  /\ probe = NoProbe

\* The caller runs: spin() is not on the stack (it has not started, has
\* finished, or is suspended at its await).
CallerRuns == pc \in {"idle", "await"} /\ ops < MaxOps

getState ==
  /\ CallerRuns
  /\ last' = Step("getState", "", "ok")
  /\ UNCHANGED <<state, pc, result, ops, spun, hist, probe>>

\* The amount stored without the range test.
setBet_Unchecked(amount) ==
  /\ CallerRuns
  /\ currentBet' = amount * Dollar
  /\ ops' = IF currentBet' = currentBet THEN ops ELSE ops + 1
  /\ last' = Step("setBet", BetArg(amount), "ok")
  /\ UNCHANGED <<grid, balance, totalWin, isSpinning, isFreeSpins, freeSpinsRemaining,
                 orders, anteMode, cascadeSteps, pc, result, spun, hist, probe>>

setBet(amount) ==
  /\ CallerRuns
  /\ currentBet' = IF amount >= minBet /\ amount <= maxBet THEN amount * Dollar ELSE currentBet
  /\ ops' = IF currentBet' = currentBet THEN ops ELSE ops + 1
  /\ last' = Step("setBet", BetArg(amount), "ok")
  /\ UNCHANGED <<grid, balance, totalWin, isSpinning, isFreeSpins, freeSpinsRemaining,
                 orders, anteMode, cascadeSteps, pc, result, spun, hist, probe>>

setAnteMode(mode) ==
  /\ CallerRuns
  /\ anteMode' = mode
  /\ ops' = IF anteMode' = anteMode THEN ops ELSE ops + 1
  /\ last' = Step("setAnteMode", mode, "ok")
  /\ UNCHANGED <<grid, balance, currentBet, totalWin, isSpinning, isFreeSpins, freeSpinsRemaining,
                 orders, cascadeSteps, pc, result, spun, hist, probe>>

\* The bet debited without its ante multiplier.
betAmount_NoAnte == currentBet

\* No debit for a spin of a free-spin session.
betAmount_FreeSpinsFree ==
  IF isFreeSpins THEN 0
  ELSE CASE anteMode = "low"  -> (currentBet * lowAnteMultiplierNum) \div lowAnteMultiplierDen
         [] anteMode = "high" -> currentBet * highAnteMultiplier
         [] OTHER             -> currentBet

\* let betAmount = currentBet (* lowAnteMultiplier | highAnteMultiplier)
betAmount ==
  CASE anteMode = "low"  -> (currentBet * lowAnteMultiplierNum) \div lowAnteMultiplierDen
    [] anteMode = "high" -> currentBet * highAnteMultiplier
    [] OTHER             -> currentBet

\* The funds test made on the bare bet, before the ante multiplier is applied.
InsufficientForSpin_IgnoresAnte == balance < currentBet

\* if (this.state.balance < betAmount)
InsufficientForSpin == balance < betAmount

\* The reentrant call answered with the zero result only after its debit.
SpinWhileSpinning_Debits ==
  /\ CallerRuns
  /\ isSpinning
  /\ balance' = balance - betAmount
  /\ ops' = ops + 1
  /\ last' = [Step("spin", "", "zero") EXCEPT !.value = ZeroResult]
  /\ UNCHANGED <<grid, currentBet, totalWin, isSpinning, isFreeSpins, freeSpinsRemaining,
                 orders, anteMode, cascadeSteps, pc, result, spun, hist, probe>>

\* if (this.state.isSpinning) return { wins: [], cascades: 0, totalWin: 0 };
SpinWhileSpinning ==
  /\ CallerRuns
  /\ isSpinning
  /\ last' = [Step("spin", "", "zero") EXCEPT !.value = ZeroResult]
  /\ UNCHANGED <<state, pc, result, ops, spun, hist, probe>>

\* throw new Error('Insufficient balance');
SpinInsufficient ==
  /\ CallerRuns
  /\ ~isSpinning
  /\ InsufficientForSpin
  /\ last' = Step("spin", "", "throw")
  /\ UNCHANGED <<state, pc, result, ops, spun, hist, probe>>

\* The loop left after its first scan whatever the scan found.
LoopTest_BreaksAtOnce(g) == "await"

\* The test at the top of processCascades' while (true) loop on grid g: with
\* no wins the loop breaks, processCascades returns and spin() suspends at its
\* await (the caller gets the pending promise); else the loop body runs.
LoopTest(g) == IF Len(findWinningCombinations(g)) = 0 THEN "await" ELSE "cascade"

\* spin() from the debit to the first loop test of processCascades.
SpinStart(generated, plan) ==
  /\ CallerRuns
  /\ ~isSpinning
  /\ ~InsufficientForSpin
  /\ ops' = ops + 1
  /\ balance' = balance - betAmount
  /\ isSpinning' = TRUE
  /\ totalWin' = 0
  /\ cascadeSteps' = << >>
  /\ orders' = IF ~isFreeSpins THEN generated ELSE orders
  /\ grid' = generateInitialGrid(plan)
  /\ pc' = LoopTest(grid')
  /\ result' = NoResult
  /\ last' = Step("spin", "", "pending")
  /\ hist' = [NoSpin EXCEPT !.startFreeSpins = isFreeSpins, !.startAnte = anteMode,
                            !.startBet = currentBet, !.startBalance = balance,
                            !.startGrid = grid', !.startOps = ops']
  /\ UNCHANGED <<currentBet, isFreeSpins, freeSpinsRemaining, anteMode, spun, probe>>

(***************************************************************************)
(* processCascades                                                         *)
(***************************************************************************)
\* The payout scaled by the ante-adjusted bet.
PayWins_AnteAdjusted(wins, bet) ==
  [k \in DOMAIN wins |->
     [wins[k] EXCEPT !.payout = calculatePayout(SymbolDef(wins[k].symbol), wins[k].count) * betAmount]]

\* win.payout = calculatePayout(win.symbol, win.count) * currentBet
PayWins(wins, bet) ==
  [k \in DOMAIN wins |->
     [wins[k] EXCEPT !.payout = calculatePayout(SymbolDef(wins[k].symbol), wins[k].count) * bet]]

RECURSIVE SumPayouts(_, _)
SumPayouts(wins, n) == IF n = 0 THEN 0 ELSE SumPayouts(wins, n - 1) + wins[n].payout

RECURSIVE ProgressAll(_, _, _)
\* updateOrderProgress for wins[1..n], in order.
ProgressAll(os, wins, n) ==
  IF n = 0 THEN os
  ELSE updateOrderProgress(ProgressAll(os, wins, n - 1), wins[n].symbol, wins[n].count)

\* One pass of the body of the while (true) loop, and the next loop test.
CascadeStep(plan) ==
  /\ pc = "cascade"
  /\ result.cascades < MaxCascades
  /\ LET found == findWinningCombinations(grid)
     IN  /\ Len(found) # 0
         /\ LET wins              == PayWins(found, currentBet)
                gridBeforeRemoval == cloneGrid(grid)
                gridAfterRemoval  == removeWinningSymbols(grid, wins)
                gridAfterDrop     == dropSymbols(gridAfterRemoval)
                gridAfterFill     == fillEmptySpaces(gridAfterDrop, plan)
            IN  /\ result' = [wins     |-> result.wins \o wins,
                              cascades |-> result.cascades + 1,
                              totalWin |-> result.totalWin + SumPayouts(wins, Len(wins))]
                /\ orders' = ProgressAll(orders, wins, Len(wins))
                /\ grid' = gridAfterFill
                /\ cascadeSteps' = Append(cascadeSteps,
                                          [wins              |-> wins,
                                           gridBeforeRemoval |-> gridBeforeRemoval,
                                           gridAfterRemoval  |-> gridAfterRemoval,
                                           gridAfterDrop     |-> gridAfterDrop,
                                           gridAfterFill     |-> gridAfterFill])
  /\ pc' = LoopTest(grid')
  /\ last' = Step("cascade", "", "ok")
  /\ UNCHANGED <<balance, currentBet, totalWin, isSpinning, isFreeSpins, freeSpinsRemaining,
                 anteMode, ops, spun, hist, probe>>

(***************************************************************************)
(* spin() after its await                                                  *)
(***************************************************************************)
ScatterCount(g) ==
  Cardinality({p \in Positions : ~IsNull(g[p[1]][p[2]]) /\ SymbolDef(g[p[1]][p[2]].symbol).isScatter})

\* The ante-adjusted scatterTrigger of checkFreeSpinsTrigger.
TriggerThreshold(mode) ==
  CASE mode = "low"  -> Max(1, (scatterTrigger * lowAnteScatterBoostDen) \div lowAnteScatterBoostNum)
    [] mode = "high" -> Max(1, scatterTrigger \div highAnteScatterBoost)
    [] OTHER         -> scatterTrigger

\* if (scatterCount >= scatterTrigger && !this.state.isFreeSpins)
Triggers == ScatterCount(grid) >= TriggerThreshold(anteMode) /\ ~isFreeSpins

\* The statements of spin() after its await, in the order they run: line 187,
\* lines 189-191, line 193, lines 195-201.
spinContinuation ==
  << "checkFreeSpinsTrigger", "credit", "checkOrderCompletion", "countdown" >>

\* Lines 187-203 of spin(): trigger check, credit, order completion, countdown.
Settle(batch) ==
  /\ pc = "await"
  /\ LET fs1   == IF Triggers THEN TRUE ELSE isFreeSpins
         rem1  == IF Triggers THEN spinsAwarded ELSE freeSpinsRemaining
         ord1  == IF Triggers THEN batch ELSE orders
         done  == checkOrderCompletion(ord1, fs1, currentBet)
         count == fs1 /\ rem1 > 0
         rem2  == IF count THEN rem1 - 1 ELSE rem1
         ends  == count /\ rem2 = 0
         super == IF ends THEN checkAllOrdersCompletion(done.orders, currentBet) ELSE 0
     IN  /\ balance' = balance + result.totalWin + done.tips + super
         /\ totalWin' = result.totalWin + done.tips + super
         /\ isSpinning' = FALSE
         /\ isFreeSpins' = IF ends THEN FALSE ELSE fs1
         /\ freeSpinsRemaining' = rem2
         /\ orders' = IF ends THEN << >> ELSE done.orders
  /\ pc' = "idle"
  /\ last' = Step("settle", "", "resolved")
  /\ spun' = TRUE
  /\ hist' = [hist EXCEPT !.settleBalance = balance, !.settleFreeSpins = isFreeSpins,
                          !.settleRemaining = freeSpinsRemaining, !.settleOrders = orders,
                          !.settleCalls = spinContinuation]
  /\ UNCHANGED <<grid, currentBet, anteMode, cascadeSteps, result, ops, probe>>

(***************************************************************************)
(* buyFreeSpins                                                            *)
(***************************************************************************)
Package(packageType) == IF packageType = "cheap" THEN cheapPackage ELSE standardPackage

\* The cost scaled by the ante-adjusted bet.
BuyCost_AnteAdjusted(pkg) == pkg.cost * betAmount

\* pkg.cost * this.state.currentBet
BuyCost(pkg) == pkg.cost * currentBet

\* The funds test made on the package's cost, not multiplied by the bet.
InsufficientForPackage_IgnoresBet(pkg) == balance < pkg.cost * Dollar

\* if (this.state.balance < pkg.cost * this.state.currentBet)
InsufficientForPackage(pkg) == balance < BuyCost(pkg)

\* The session flag raised before the funds test throws.
BuyInsufficient_EntersFreeSpins(packageType) ==
  /\ CallerRuns
  /\ InsufficientForPackage(Package(packageType))
  /\ isFreeSpins' = TRUE
  /\ last' = Step("buyFreeSpins", packageType, "throw")
  /\ UNCHANGED <<grid, balance, currentBet, totalWin, isSpinning, freeSpinsRemaining,
                 orders, anteMode, cascadeSteps, pc, result, ops, spun, hist, probe>>

BuyInsufficient(packageType) ==
  /\ CallerRuns
  /\ InsufficientForPackage(Package(packageType))
  /\ last' = Step("buyFreeSpins", packageType, "throw")
  /\ UNCHANGED <<state, pc, result, ops, spun, hist, probe>>

\* The package's spins added to those left (+= in place of =).
BuyFreeSpins_AddsSpins(packageType, d) ==
  LET pkg == Package(packageType)
  IN  /\ CallerRuns
      /\ ~InsufficientForPackage(pkg)
      /\ ops' = ops + 1
      /\ balance' = balance - BuyCost(pkg)
      /\ isFreeSpins' = TRUE
      /\ freeSpinsRemaining' = freeSpinsRemaining + pkg.spins
      /\ orders' = OrderBatch(Min(pkg.maxOrders, freeSpinsMaxOrders), d, pkg.tipMultipliers)
      /\ last' = Step("buyFreeSpins", packageType, "ok")
      /\ UNCHANGED <<grid, currentBet, totalWin, isSpinning, anteMode, cascadeSteps,
                     pc, result, spun, hist, probe>>

BuyFreeSpins(packageType, d) ==
  LET pkg == Package(packageType)
  IN  /\ CallerRuns
      /\ ~InsufficientForPackage(pkg)
      /\ ops' = ops + 1
      /\ balance' = balance - BuyCost(pkg)
      /\ isFreeSpins' = TRUE
      /\ freeSpinsRemaining' = pkg.spins
      /\ orders' = OrderBatch(Min(pkg.maxOrders, freeSpinsMaxOrders), d, pkg.tipMultipliers)
      /\ last' = Step("buyFreeSpins", packageType, "ok")
      /\ UNCHANGED <<grid, currentBet, totalWin, isSpinning, anteMode, cascadeSteps,
                     pc, result, spun, hist, probe>>

\* What generateOrder() can leave in this.state.orders (unused in free spins).
GeneratedOrders ==
  IF isFreeSpins THEN {<< >>}
  ELSE {generateOrder(anteMode, chanceRoll, d) : chanceRoll \in ChanceRolls, d \in OrderDraws}

\* What triggerFreeSpins() can put in this.state.orders (unused without trigger).
TriggeredOrders ==
  IF ~Triggers THEN {<< >>}
  ELSE {OrderBatch(n, d, normalTipMultipliers) :
          n \in {freeSpinsMinOrders, freeSpinsMaxOrders}, d \in OrderDraws}

(***************************************************************************)
(* Specification                                                           *)
(***************************************************************************)
Next ==
  \/ getState
  \/ \E amount \in BetInputs : setBet(amount)
  \/ \E mode \in {"none", "low", "high"} : setAnteMode(mode)
  \/ SpinWhileSpinning
  \/ SpinInsufficient
  \/ \E generated \in GeneratedOrders, plan \in Plans : SpinStart(generated, plan)
  \/ \E plan \in RefillPlans : CascadeStep(plan)
  \/ \E batch \in TriggeredOrders : Settle(batch)
  \/ \E packageType \in {"cheap", "standard"} : BuyInsufficient(packageType)
  \/ \E packageType \in {"cheap", "standard"}, d \in OrderDraws : BuyFreeSpins(packageType, d)

Spec == Init /\ [][Next]_vars

(***************************************************************************)
(* A free-spin session near its end: the states a run reaches after       *)
(* buyFreeSpins('cheap') and all but one or two of its spins, the latest a *)
(* spin without wins.                                                      *)
(***************************************************************************)
\* The symbols whose orders the earlier spins of the session have served.
SessionServed == {{"burger", "drink"}, {"drink"}, {"burger"}}

\* The orders of a cheap purchase, those on the symbols of served completed.
SessionOrders(served) ==
  LET bought == OrderBatch(Min(cheapPackage.maxOrders, freeSpinsMaxOrders),
                           [sym |-> 1, quantity |-> freeSpinsMinQuantity, tip |-> 0],
                           cheapPackage.tipMultipliers)
  IN  [i \in DOMAIN bought |->
         IF bought[i].symbolId \in served
         THEN [bought[i] EXCEPT !.collected = bought[i].quantity, !.completed = TRUE]
         ELSE bought[i]]

\* The orders of a cheap purchase that asks for the largest quantity, the
\* burger orders part served by an earlier win of minWinSymbols burgers.
SessionPartial ==
  LET bought == OrderBatch(Min(cheapPackage.maxOrders, freeSpinsMaxOrders),
                           [sym |-> 1, quantity |-> freeSpinsMaxQuantity, tip |-> 5],
                           cheapPackage.tipMultipliers)
  IN  [i \in DOMAIN bought |->
         IF bought[i].symbolId = "burger"
         THEN [bought[i] EXCEPT !.collected = minWinSymbols]
         ELSE bought[i]]

\* Where the session stands: the balance (in dollars), the spins left, the
\* orders.  One spin left with each state of service, once with a balance that
\* play has brought down; two spins left with orders part served.
SessionStarts ==
  {[balance |-> initialBalance, spins |-> 1, orders |-> SessionOrders(served)] :
     served \in SessionServed}
  \cup {[balance |-> 12, spins |-> 1, orders |-> SessionOrders({"burger", "drink"})],
        [balance |-> initialBalance, spins |-> 2, orders |-> SessionPartial]}

SessionInit ==
  /\ grid = generateInitialGrid([sym |-> 1, run |-> 4])
  /\ \E start \in SessionStarts :
       /\ balance = start.balance * Dollar
       /\ freeSpinsRemaining = start.spins
       /\ orders = start.orders
  /\ currentBet = defaultBet * Dollar
  /\ totalWin = 0
  /\ isSpinning = FALSE
  /\ isFreeSpins = TRUE
  /\ anteMode = "none"
  /\ cascadeSteps = << >>
  /\ pc = "idle"
  /\ result = NoResult
  /\ ops = 0
  /\ last = [op |-> "settle", arg |-> "", outcome |-> "resolved", isSpinning |-> TRUE,
             value |-> NoResult]
  /\ spun = TRUE
  /\ hist = [startFreeSpins |-> TRUE, startAnte |-> "none", startBet |-> currentBet,
             startBalance |-> balance + currentBet, startGrid |-> grid, startOps |-> ops,
             settleBalance |-> balance, settleFreeSpins |-> TRUE,
             settleRemaining |-> freeSpinsRemaining + 1, settleOrders |-> orders,
             settleCalls |-> spinContinuation]
  /\ probe = NoProbe

SessionSpec == SessionInit /\ [][Next]_vars

(***************************************************************************)
(* The pure functions on their own: findWinningCombinations on grids that  *)
(* also hold scatter cells and empty positions, calculatePayout on symbols *)
(* with any payouts table.                                                 *)
(***************************************************************************)
\* Largest count handed to calculatePayout.
MaxCount == 14

\* A grid whose scan order holds a burgers, then b drinks, then e empty
\* positions, then sc scatters, then other food symbols (at most 5 of each).
ProbeGrid(a, b, e, sc) ==
  [r \in Rows |-> [c \in Cols |->
     LET j == ScanIndex(r, c) - 1
         id == IF j < a THEN "burger"
               ELSE IF j < a + b THEN "drink"
               ELSE IF j < a + b + e THEN ""
               ELSE IF j < a + b + e + sc THEN "scatter"
               ELSE foodSymbols[(j % 7) + 3].id
     IN  IF id = "" THEN Null ELSE [symbol |-> id, row |-> r, col |-> c]]]

DetectInputs ==
  {[NoProbe EXCEPT !.fn = "detect", !.grid = ProbeGrid(a, b, e, sc)] :
     a \in {0, 7, 8, 12}, b \in {0, 7, 8}, e \in {0, 3}, sc \in {0, 9}}

\* Symbols with every shape of payouts table the Symbol interface allows.
ProbeSymbols ==
  {[id |-> "probe", weight |-> 1, hasPayouts |-> TRUE, isScatter |-> FALSE,
    payouts |-> [t \in Tiers |-> IF t \in present THEN StdPayouts[t] ELSE Undefined]] :
     present \in SUBSET Tiers}
  \cup {[id |-> "probe", weight |-> 1, hasPayouts |-> FALSE, isScatter |-> FALSE, payouts |-> NoPayouts]}

PayoutInputs ==
  {[NoProbe EXCEPT !.fn = "payout", !.symbol = sym, !.count = n] :
     sym \in ProbeSymbols, n \in 0..MaxCount}

\* A full grid whose cells carry the id they were created with, one symbol
\* on the positions with (p * row + q * col) % m = 0 and the other food
\* symbols (at most 4 cells of each) elsewhere.
PatternGrid(p, q, m) ==
  [r \in Rows |-> [c \in Cols |->
     [symbol |-> IF (p * r + q * c) % m = 0 THEN "burger"
                 ELSE foodSymbols[((ScanIndex(r, c) - 1) % 8) + 2].id,
      row |-> r, col |-> c, id |-> ScanIndex(r, c)]]]

\* The grids dropSymbols() finds: pattern grids with their wins removed.
DropInputs ==
  {[NoProbe EXCEPT !.fn = "drop",
                   !.grid = removeWinningSymbols(PatternGrid(p, q, m),
                                                 findWinningCombinations(PatternGrid(p, q, m)))] :
     p \in {1, 2}, q \in {1, 2}, m \in {2, 3, 4}}

PureInit ==
  /\ grid = generateInitialGrid([sym |-> 1, run |-> 9])
  /\ balance = initialBalance * Dollar
  /\ currentBet = defaultBet * Dollar
  /\ totalWin = 0
  /\ isSpinning = FALSE
  /\ isFreeSpins = FALSE
  /\ freeSpinsRemaining = 0
  /\ orders = << >>
  /\ anteMode = "none"
  /\ cascadeSteps = << >>
  /\ pc = "idle"
  /\ result = NoResult
  /\ ops = 0
  /\ last = [op |-> "new", arg |-> "", outcome |-> "ok", isSpinning |-> FALSE, value |-> NoResult]
  /\ spun = FALSE
  /\ hist = NoSpin
  /\ probe \in DetectInputs \cup PayoutInputs \cup DropInputs

ApplyDetect ==
  /\ probe.fn = "detect"
  /\ ~probe.done
  /\ probe' = [probe EXCEPT !.wins = findWinningCombinations(probe.grid), !.done = TRUE]
  /\ UNCHANGED <<state, pc, result, ops, last, spun, hist>>

ApplyPayout ==
  /\ probe.fn = "payout"
  /\ ~probe.done
  /\ probe' = [probe EXCEPT !.payout = calculatePayout(probe.symbol, probe.count), !.done = TRUE]
  /\ UNCHANGED <<state, pc, result, ops, last, spun, hist>>

ApplyDrop ==
  /\ probe.fn = "drop"
  /\ ~probe.done
  /\ probe' = [probe EXCEPT !.dropped = dropSymbols(probe.grid), !.done = TRUE]
  /\ UNCHANGED <<state, pc, result, ops, last, spun, hist>>

PureNext == ApplyDetect \/ ApplyPayout \/ ApplyDrop

PureSpec == PureInit /\ [][PureNext]_vars

(***************************************************************************)
(* Snapshots: the object getState() returns, held and written by a caller  *)
(***************************************************************************)
\* The fields of GameState that hold arrays of objects.
ObjectFields == {"grid", "orders", "cascadeSteps"}

\* The fields of GameState that hold a number, a boolean or a string.
ScalarFields == {"balance", "currentBet", "totalWin", "isSpinning", "isFreeSpins",
                 "freeSpinsRemaining", "anteMode"}

\* this.state[field]
Live(field) ==
  CASE field = "grid" -> grid
    [] field = "balance" -> balance
    [] field = "currentBet" -> currentBet
    [] field = "totalWin" -> totalWin
    [] field = "isSpinning" -> isSpinning
    [] field = "isFreeSpins" -> isFreeSpins
    [] field = "freeSpinsRemaining" -> freeSpinsRemaining
    [] field = "orders" -> orders
    [] field = "anteMode" -> anteMode
    [] field = "cascadeSteps" -> cascadeSteps

\* { ...this.state }: the scalars copied, the arrays those of this.state
\* (own is FALSE for a field whose object the snapshot shares with the engine).
getStateValue_Spread ==
  [field \in ObjectFields \cup ScalarFields |->
     [own |-> field \in ScalarFields, value |-> Live(field)]]

\* JSON.parse(JSON.stringify(this.state)): the text holds the values of all
\* fields, and parse builds every array and object anew from it.
getStateValue ==
  [field \in ObjectFields \cup ScalarFields |-> [own |-> TRUE, value |-> Live(field)]]

\* The fields a holder of a snapshot writes.
SnapshotWrites == ObjectFields \cup {"balance"}

\* What a write leaves in the field: snap.grid[0][0].symbol = null,
\* snap.orders[0].completed flipped (or an order pushed),
\* snap.cascadeSteps.length = 0 (or a step pushed), snap.balance = 0.
Written(field, value) ==
  CASE field = "grid" -> [value EXCEPT ![0][0] = Null]
    [] field = "orders" ->
         IF value = << >> THEN << [NewOrder(OrderSyms[1], 1, 1) EXCEPT !.completed = TRUE] >>
         ELSE [value EXCEPT ![1].completed = ~@]
    [] field = "cascadeSteps" ->
         IF value = << >>
         THEN << [wins |-> << >>, gridBeforeRemoval |-> grid, gridAfterRemoval |-> grid,
                  gridAfterDrop |-> grid, gridAfterFill |-> grid] >>
         ELSE << >>
    [] field = "balance" -> 0

\* const snap = engine.getState(), kept by the caller.
HoldSnapshot ==
  /\ pc \in {"idle", "await"}
  /\ probe.fn = "none"
  /\ probe' = [fn |-> "snapshot", fields |-> getStateValue, written |-> {}]
  /\ last' = Step("getState", "", "ok")
  /\ UNCHANGED <<state, pc, result, ops, spun, hist>>

\* The caller writes a field of the snapshot it holds (one write to a
\* snapshot): the write lands in the snapshot's own object, or in the engine's
\* where the two share it.
WriteSnapshot(field) ==
  /\ pc \in {"idle", "await"}
  /\ probe.fn = "snapshot"
  /\ probe.written = {}
  /\ LET own == probe.fields[field].own
         new == Written(field, IF own THEN probe.fields[field].value ELSE Live(field))
     IN  /\ probe' = IF own
                     THEN [probe EXCEPT !.fields[field].value = new, !.written = @ \cup {field}]
                     ELSE [probe EXCEPT !.written = @ \cup {field}]
         /\ grid' = IF ~own /\ field = "grid" THEN new ELSE grid
         /\ orders' = IF ~own /\ field = "orders" THEN new ELSE orders
         /\ cascadeSteps' = IF ~own /\ field = "cascadeSteps" THEN new ELSE cascadeSteps
         /\ balance' = IF ~own /\ field = "balance" THEN new ELSE balance
  /\ last' = Step("write", field, "ok")
  /\ UNCHANGED <<currentBet, totalWin, isSpinning, isFreeSpins, freeSpinsRemaining, anteMode,
                 pc, result, ops, spun, hist>>

\* The engine's calls that run beside the snapshot: a bet change, a spin whose
\* grid wins, its cascades and settlement, a purchase.
SnapshotNext ==
  \/ HoldSnapshot
  \/ \E field \in SnapshotWrites : WriteSnapshot(field)
  \/ setBet(1)
  \/ \E generated \in GeneratedOrders : SpinStart(generated, [sym |-> 1, run |-> 9])
  \/ CascadeStep([sym |-> 4, run |-> 7])
  \/ Settle(<< >>)
  \/ BuyFreeSpins("cheap", [sym |-> 1, quantity |-> freeSpinsMinQuantity, tip |-> 0])

SnapshotSpec == Init /\ [][SnapshotNext]_vars

(***************************************************************************)
(* Properties of the engine                                                *)
(***************************************************************************)
\* What a spin costs: the bet times the ante multiplier (1, 1.25 or 5).
SpinPrice ==
  IF anteMode = "low" THEN (currentBet * 5) \div 4
  ELSE IF anteMode = "high" THEN currentBet * 5
  ELSE currentBet

\* What a package costs: 50 (cheap) or 100 (standard) times the bet.
PackagePrice(packageType) == (IF packageType = "cheap" THEN 50 ELSE 100) * currentBet

\* The calls a caller can make.
CallerOps == {"getState", "setBet", "setAnteMode", "spin", "buyFreeSpins"}

\* C1: a spin() call made while isSpinning is true answers at once with
\* {wins: [], cascades: 0, totalWin: 0}, neither throwing nor left pending,
\* and changes no field of the engine state, nor the suspended spin.
C1_ReentrantSpinIsNoOp ==
  [][(last'.op = "spin" /\ isSpinning)
       => (/\ last'.outcome = "zero"
           /\ last'.value = [wins |-> << >>, cascades |-> 0, totalWin |-> 0]
           /\ UNCHANGED <<state, pc, result>>)]_vars

\* A spin() call has been answered with the zero result while another spin,
\* debited and not yet settled, was suspended.
C1_Witness ==
  /\ last.op = "spin"
  /\ last.outcome = "zero"
  /\ last.isSpinning
  /\ pc = "await"
  /\ isSpinning

\* C2: no call ever finds isSpinning true: when spin() hands control back the
\* spin is settled, so whenever the caller runs no spin is in flight.
C2_NoCallObservesSpinning ==
  /\ (last.op \in CallerOps => ~last.isSpinning)
  /\ (pc \in {"idle", "await"} => ~isSpinning)

\* C3: a spin() call made with balance < bet x ante multiplier (and no spin in
\* flight) throws and leaves every state field as it was, in free spins too.
C3_RejectedSpinChangesNothing ==
  [][(last'.op = "spin" /\ ~isSpinning /\ balance < SpinPrice)
       => (last'.outcome = "throw" /\ UNCHANGED <<state, pc, result>>)]_vars

\* A free spin has been rejected for lack of funds.
C3_Witness ==
  /\ last.op = "spin"
  /\ last.outcome = "throw"
  /\ isFreeSpins
  /\ freeSpinsRemaining > 0
  /\ balance < SpinPrice

\* C4: buyFreeSpins(pkg) called with balance < pkg.cost x currentBet throws
\* and leaves balance, isFreeSpins, freeSpinsRemaining and orders (and every
\* other state field) unchanged.
C4_RejectedPurchaseChangesNothing ==
  [][(last'.op = "buyFreeSpins" /\ balance < PackagePrice(last'.arg))
       => (last'.outcome = "throw" /\ UNCHANGED <<state, pc, result>>)]_vars

\* A purchase has been rejected for lack of funds.
C4_Witness ==
  /\ last.op = "buyFreeSpins"
  /\ last.arg = "standard"
  /\ last.outcome = "throw"
  /\ balance < PackagePrice("standard")
  /\ ~isFreeSpins

\* C5: balance is never negative, and every step that lowers it is a spin()
\* call debiting bet x ante multiplier or a buyFreeSpins call debiting
\* pkg.cost x currentBet, taken with at least that amount in the balance.
C5_BalanceNeverNegative ==
  /\ [](balance >= 0)
  /\ [][balance' < balance
          => \/ /\ last'.op = "spin"
                /\ balance - balance' = SpinPrice
                /\ balance >= SpinPrice
             \/ /\ last'.op = "buyFreeSpins"
                /\ balance - balance' = PackagePrice(last'.arg)
                /\ balance >= PackagePrice(last'.arg)]_vars

\* A debit has taken the whole balance, under an ante mode.
C5_Witness ==
  /\ balance = 0
  /\ last.op \in {"spin", "buyFreeSpins"}
  /\ last.outcome \in {"pending", "ok"}

\* C6: the cascade loop is capped: once MaxCascades iterations have run the
\* loop is over (Done, or an error handed to the caller), it never goes on.
C6_CascadeLoopIsCapped ==
  result.cascades >= MaxCascades => pc # "cascade"

CountOf(g, sid) ==
  Cardinality({p \in Positions : g[p[1]][p[2]].symbol = sid})

\* C7: after every completed spin (and once the cascade loop is left) no
\* non-scatter symbol occupies minWinSymbols or more cells of the live grid.
C7_GridStableAfterSpin ==
  (pc = "await" \/ (pc = "idle" /\ spun))
    => \A sid \in FoodIds : CountOf(grid, sid) < 8

\* A spin that cascaded has completed, seven cells of one symbol on its grid.
C7_Witness ==
  /\ pc = "idle"
  /\ spun
  /\ Len(cascadeSteps) > 0
  /\ \E sid \in FoodIds : CountOf(grid, sid) = 7

IsFull(g) ==
  /\ DOMAIN g = 0..4
  /\ \A r \in DOMAIN g :
       /\ DOMAIN g[r] = 0..5
       /\ \A c \in DOMAIN g[r] : g[r][c] # Null /\ g[r][c].symbol \in SymbolIds

HasShape(g) == DOMAIN g = 0..4 /\ \A r \in DOMAIN g : DOMAIN g[r] = 0..5

EmptyCells(g) == {p \in Positions : g[p[1]][p[2]] = Null}

\* C8: the live grid after construction and after every completed spin, and
\* gridBeforeRemoval and gridAfterFill of every cascade step, are full 5 x 6
\* matrices; gridAfterRemoval and gridAfterDrop keep the dimensions and are
\* the only grids with empty cells.
C8_SettledGridsAreFull ==
  /\ pc \in {"idle", "await"} => IsFull(grid)
  /\ \A k \in DOMAIN cascadeSteps :
       /\ IsFull(cascadeSteps[k].gridBeforeRemoval)
       /\ IsFull(cascadeSteps[k].gridAfterFill)
       /\ HasShape(cascadeSteps[k].gridAfterRemoval)
       /\ HasShape(cascadeSteps[k].gridAfterDrop)

\* A completed spin whose cascade step emptied cells in the top row and
\* refilled them.
C8_Witness ==
  /\ pc = "idle"
  /\ spun
  /\ \E k \in DOMAIN cascadeSteps :
       /\ EmptyCells(cascadeSteps[k].gridAfterRemoval) # {}
       /\ \E p \in EmptyCells(cascadeSteps[k].gridAfterDrop) : p[1] = 0
       /\ Cardinality(EmptyCells(cascadeSteps[k].gridAfterDrop))
            = Cardinality(EmptyCells(cascadeSteps[k].gridAfterRemoval))

RECURSIVE StepWins(_, _)
\* The wins of steps[1..n], in order.
StepWins(steps, n) == IF n = 0 THEN << >> ELSE StepWins(steps, n - 1) \o steps[n].wins

RECURSIVE PayoutSum(_, _)
PayoutSum(wins, n) == IF n = 0 THEN 0 ELSE PayoutSum(wins, n - 1) + wins[n].payout

\* The documented multiplier of a food symbol: 50x from 12, 25x for 10-11,
\* 10x for 8-9.
TableMultiplier(count) ==
  IF count >= 12 THEN 50 ELSE IF count >= 10 THEN 25 ELSE IF count >= 8 THEN 10 ELSE 0

\* C11: the running result of a spin matches its cascade history: cascades is
\* the number of recorded steps, wins the concatenation of the steps' wins,
\* every payout the tier multiplier times the bet the spin started with (not
\* the ante-adjusted bet), and totalWin the sum of the payouts.
C11_ResultMatchesHistory ==
  /\ result.cascades = Len(cascadeSteps)
  /\ result.wins = StepWins(cascadeSteps, Len(cascadeSteps))
  /\ result.totalWin = PayoutSum(result.wins, Len(result.wins))
  /\ \A k \in DOMAIN result.wins :
       result.wins[k].payout = TableMultiplier(result.wins[k].count) * hist.startBet

\* A spin under high ante has completed after two cascade steps, each with a
\* paid win.
C11_Witness ==
  /\ pc = "idle"
  /\ last.op = "settle"
  /\ hist.startAnte = "high"
  /\ result.cascades = 2
  /\ Len(cascadeSteps) = 2
  /\ Len(result.wins) = 2
  /\ result.totalWin = result.wins[1].payout + result.wins[2].payout
  /\ result.wins[2].payout > 0

\* The price of a spin at a bet under an ante mode: x1, x1.25 or x5.
PriceOf(bet, ante) ==
  IF ante = "low" THEN (bet * 5) \div 4 ELSE IF ante = "high" THEN bet * 5 ELSE bet

\* The latest spin started outside free-spin mode on a grid without a group
\* of 8.
NoWinSpin ==
  /\ hist.startGrid # << >>
  /\ ~hist.startFreeSpins
  /\ \A sid \in FoodIds : CountOf(hist.startGrid, sid) < 8

\* C12: a spin outside free-spin mode whose initial grid has no qualifying
\* cluster never enters the cascade loop body: cascades = 0, totalWin = 0, no
\* CascadeStep, the live grid stays the initial grid; its debit is exactly the
\* ante-adjusted bet and its settlement credits nothing.
C12_NoWinSpin ==
  NoWinSpin
    => /\ pc # "cascade"
       /\ result = [wins |-> << >>, cascades |-> 0, totalWin |-> 0]
       /\ cascadeSteps = << >>
       /\ grid = hist.startGrid
       /\ (last.op = "spin" /\ last.outcome = "pending")
            => balance = hist.startBalance - PriceOf(hist.startBet, hist.startAnte)
       /\ last.op = "settle"
            => /\ balance = hist.settleBalance
               /\ totalWin = 0
               /\ (hist.settleBalance = hist.startBalance - PriceOf(hist.startBet, hist.startAnte)
                     => balance = hist.startBalance - PriceOf(hist.startBet, hist.startAnte))

\* A no-win spin at bet 10 without ante has completed and taken a balance of
\* 500 to 490.
C12_Witness ==
  /\ NoWinSpin
  /\ last.op = "settle"
  /\ pc = "idle"
  /\ ~isSpinning
  /\ hist.startAnte = "none"
  /\ hist.startBet = 40
  /\ hist.startBalance = 2000
  /\ balance = 1960

\* Every non-empty cell of g carries the row and column it is found at.
FieldsMatch(g) ==
  \A p \in Positions :
    g[p[1]][p[2]] # Null => (g[p[1]][p[2]].row = p[1] /\ g[p[1]][p[2]].col = p[2])

\* The positions the cells of a step's wins address.
Addressed(wins) ==
  UNION {{<<wins[k].cells[i].row, wins[k].cells[i].col>> : i \in DOMAIN wins[k].cells} :
           k \in DOMAIN wins}

\* C14: in the live grid and in every stored snapshot each non-empty cell at
\* [r][c] has row = r and col = c; the cells of a step's wins address cells of
\* the win's symbol on the grid before removal, and Remove clears exactly the
\* positions they address, in the second and later steps too.
C14_CellFieldsMatchPositions ==
  /\ FieldsMatch(grid)
  /\ \A k \in DOMAIN cascadeSteps :
       LET step == cascadeSteps[k]
       IN  /\ FieldsMatch(step.gridBeforeRemoval)
           /\ FieldsMatch(step.gridAfterRemoval)
           /\ FieldsMatch(step.gridAfterDrop)
           /\ FieldsMatch(step.gridAfterFill)
           /\ \A w \in DOMAIN step.wins : \A i \in DOMAIN step.wins[w].cells :
                LET cell == step.wins[w].cells[i]
                IN  step.gridBeforeRemoval[cell.row][cell.col].symbol = step.wins[w].symbol
           /\ EmptyCells(step.gridAfterRemoval) = Addressed(step.wins)
           /\ \A p \in Positions \ Addressed(step.wins) :
                step.gridAfterRemoval[p[1]][p[2]] = step.gridBeforeRemoval[p[1]][p[2]]

\* The win of a second cascade step holds a cell that the first step's drop
\* moved down (it stood one row higher, under another symbol's cell), and
\* the second Remove cleared it where it stands.
C14_Witness ==
  /\ Len(cascadeSteps) = 2
  /\ \E i \in DOMAIN cascadeSteps[2].wins[1].cells :
       LET cell == cascadeSteps[2].wins[1].cells[i]
       IN  /\ cell.row > 0
           /\ cascadeSteps[1].gridAfterRemoval[cell.row][cell.col] = Null
           /\ cascadeSteps[1].gridAfterRemoval[cell.row - 1][cell.col] # Null
           /\ cascadeSteps[1].gridAfterRemoval[cell.row - 1][cell.col].symbol
                = cascadeSteps[2].wins[1].symbol
           /\ cascadeSteps[1].gridAfterDrop[cell.row][cell.col] = cell
           /\ cascadeSteps[2].gridAfterRemoval[cell.row][cell.col] = Null

\* C15: every cell a Refill creates holds a catalog symbol other than the
\* scatter and Refill leaves the other cells alone, so no step adds a scatter
\* and the live grid never holds more scatter cells than the spin's initial
\* grid.
C15_RefillNeverScatter ==
  /\ \A k \in DOMAIN cascadeSteps :
       LET step == cascadeSteps[k]
       IN  /\ \A p \in Positions :
                IF step.gridAfterDrop[p[1]][p[2]] = Null
                THEN /\ step.gridAfterFill[p[1]][p[2]].symbol # "scatter"
                     /\ step.gridAfterFill[p[1]][p[2]].symbol \in SymbolIds
                ELSE step.gridAfterFill[p[1]][p[2]] = step.gridAfterDrop[p[1]][p[2]]
           /\ CountOf(step.gridAfterFill, "scatter") <= CountOf(step.gridBeforeRemoval, "scatter")
  /\ hist.startGrid # << >> => CountOf(grid, "scatter") <= CountOf(hist.startGrid, "scatter")

\* A spin has completed after two refills, of 12 and of 9 cells.
C15_Witness ==
  /\ pc = "idle"
  /\ last.op = "settle"
  /\ Len(cascadeSteps) = 2
  /\ Cardinality(EmptyCells(cascadeSteps[1].gridAfterDrop)) = 12
  /\ Cardinality(EmptyCells(cascadeSteps[2].gridAfterDrop)) = 9
  /\ EmptyCells(cascadeSteps[2].gridAfterFill) = {}

\* C16: the initial grid of a spin is sampled with the scatter included: for
\* a spin that has started, some outcome of Math.random() puts a scatter on
\* its initial grid.
C16_SpinGridCanHoldScatter ==
  hist.startGrid # << >>
    => \E roll \in 0..foodTotalWeight : getRandomFoodSymbol(roll).id = "scatter"

\* The scatter threshold under an ante mode: 3, floor(3 / 1.5), floor(3 / 3).
ThresholdOf(ante) == IF ante = "low" THEN 2 ELSE IF ante = "high" THEN 1 ELSE 3

C19_FreeSpinCountdown ==
  (last.op = "settle" /\ hist.settleFreeSpins)
    => /\ freeSpinsRemaining = hist.settleRemaining - 1
       /\ hist.startFreeSpins
       /\ freeSpinsRemaining = 0 => (~isFreeSpins /\ orders = << >>)
       /\ freeSpinsRemaining > 0 => isFreeSpins

\* An order counts as completed at the session's end if it was completed
\* before the final spin or the final spin has collected its quantity.
Served(o) == o.completed \/ o.collected >= o.quantity

RECURSIVE TipsOwed(_, _)
\* The tips of the orders the final spin has completed.
TipsOwed(os, bet) ==
  IF os = << >> THEN 0
  ELSE (IF ~Head(os).completed /\ Head(os).collected >= Head(os).quantity
        THEN bet * Head(os).tipMultiplier ELSE 0) + TipsOwed(Tail(os), bet)

\* What the final spin pays besides the super bonus: its wins and its tips.
FinalSpinPay == result.totalWin + TipsOwed(hist.settleOrders, currentBet)

\* The latest step completed the spin that found freeSpinsRemaining at 1.
SessionEnded == last.op = "settle" /\ hist.settleFreeSpins /\ hist.settleRemaining = 1

\* C20 (under SessionSpec): when the spin that brings freeSpinsRemaining to 0
\* completes, balance and totalWin have each grown by currentBet * 100, once,
\* if there are orders and every one of them is completed (those completed
\* during that spin included), and by nothing otherwise; orders is empty.
C20_SessionEndSettlement ==
  SessionEnded
    => LET os    == hist.settleOrders
           bonus == IF Len(os) > 0 /\ (\A i \in DOMAIN os : Served(os[i]))
                    THEN currentBet * 100 ELSE 0
       IN  /\ balance = hist.settleBalance + FinalSpinPay + bonus
           /\ totalWin = FinalSpinPay + bonus
           /\ orders = << >>
           /\ freeSpinsRemaining = 0
           /\ ~isFreeSpins

\* The final spin completed the orders that were still open and the super
\* bonus was paid.
C20_Witness ==
  /\ SessionEnded
  /\ \E i \in DOMAIN hist.settleOrders : ~hist.settleOrders[i].completed
  /\ \A i \in DOMAIN hist.settleOrders : Served(hist.settleOrders[i])
  /\ totalWin = FinalSpinPay + currentBet * 100
  /\ balance = hist.settleBalance + totalWin
  /\ orders = << >>

\* The step puts new orders in this.state.orders: a spin outside free-spin
\* mode (generateOrder), a purchase, or a natural trigger.
NewOrders ==
  \/ last'.op = "spin" /\ last'.outcome = "pending" /\ ~isFreeSpins
  \/ last'.op = "buyFreeSpins" /\ last'.outcome = "ok"
  \/ last'.op = "settle" /\ ~isFreeSpins /\ isFreeSpins'

\* The orders that exist before and after the step.
Kept == IF NewOrders THEN {} ELSE DOMAIN orders \cap DOMAIN orders'

\* C21: every order has 0 <= collected <= quantity in every reachable state,
\* and while an order exists its collected value never decreases from one
\* state to the next.
C21_CollectedInRangeAndMonotone ==
  /\ [](\A i \in DOMAIN orders : orders[i].collected >= 0 /\ orders[i].collected <= orders[i].quantity)
  /\ [][\A i \in Kept : orders'[i].collected >= orders[i].collected]_vars

\* A cascade step with a win of more cells than an open order asked for has
\* brought the order exactly to its quantity.
C21_Witness ==
  /\ last.op = "cascade"
  /\ \E i \in DOMAIN orders, k \in DOMAIN cascadeSteps[Len(cascadeSteps)].wins :
       LET win == cascadeSteps[Len(cascadeSteps)].wins[k]
       IN  /\ win.symbol = orders[i].symbolId
           /\ win.count > orders[i].quantity
           /\ ~orders[i].completed
           /\ orders[i].collected = orders[i].quantity

\* The step is spin()'s continuation after its await.
SettleStep == pc = "await" /\ pc' = "idle"

\* C22 (under SessionSpec): an order's completed flag never goes from true
\* back to false, and an order that is already completed is never paid
\* again: what a completing spin credits beyond its cluster winnings is the
\* tips of the orders it has just completed, with or without the super bonus.
C22_CompletedOnceTipOnce ==
  [][/\ \A i \in Kept : orders[i].completed => orders'[i].completed
     /\ SettleStep
          => (balance' - balance) - result.totalWin
               \in {TipsOwed(orders, currentBet),
                    TipsOwed(orders, currentBet) + currentBet * 100}]_vars

\* A spin of the session has completed whose wins matched an order that was
\* completed before the spin, and it has credited its cluster winnings only.
C22_Witness ==
  /\ last.op = "settle"
  /\ hist.settleFreeSpins
  /\ \E i \in DOMAIN hist.settleOrders, k \in DOMAIN result.wins :
       /\ hist.settleOrders[i].completed
       /\ result.wins[k].symbol = hist.settleOrders[i].symbolId
  /\ result.totalWin > 0
  /\ totalWin = result.totalWin
  /\ balance = hist.settleBalance + result.totalWin

RECURSIVE CellsWon(_, _)
\* The cells of the clusters of symbol sid among wins.
CellsWon(wins, sid) ==
  IF wins = << >> THEN 0
  ELSE (IF Head(wins).symbol = sid THEN Head(wins).count ELSE 0) + CellsWon(Tail(wins), sid)

\* The wins of the latest cascade step after the step.
LatestWins == cascadeSteps'[Len(cascadeSteps')].wins

\* C23: a cascade step advances every order that is not completed and targets
\* the symbol of a winning cluster by the cluster's full count, capped at the
\* order's quantity, and leaves every other order and every other field as
\* they were.
C23_ProgressUpdate ==
  [][last'.op = "cascade"
       => /\ DOMAIN orders' = DOMAIN orders
          /\ \A i \in DOMAIN orders :
               LET n == CellsWon(LatestWins, orders[i].symbolId)
                   sum == orders[i].collected + n
               IN  orders'[i] =
                     IF orders[i].completed \/ n = 0 THEN orders[i]
                     ELSE [orders[i] EXCEPT
                             !.collected = IF sum < orders[i].quantity THEN sum
                                           ELSE orders[i].quantity]]_vars

\* A cascade step with a burger win has advanced two open burger orders, each
\* by the full count (12 cells against a quantity of 8 or 15).
C23_Witness ==
  /\ last.op = "cascade"
  /\ Len(cascadeSteps) = 1
  /\ \E i, j \in DOMAIN orders, k \in DOMAIN cascadeSteps[1].wins :
       LET win == cascadeSteps[1].wins[k]
       IN  /\ i < j
           /\ orders[i].symbolId = win.symbol
           /\ orders[j].symbolId = win.symbol
           /\ win.count = 12
           /\ orders[i].collected = orders[j].collected
           /\ orders[i].collected \in {orders[i].quantity, win.count}
           /\ \E m \in DOMAIN orders : orders[m].symbolId # win.symbol /\ orders[m].collected = 0

\* The order has met its quantity and has not been paid.
Met(o) == o.collected >= o.quantity /\ ~o.completed

\* C24: when a spin completes (other than the one that ends a session), every
\* order that had met its quantity and was not completed is now completed, and
\* balance and totalWin have each grown by currentBet * tipMultiplier for each
\* such order, on top of the spin's cluster payouts; the other orders have
\* paid nothing and keep their flag.
C24_TipPayment ==
  (last.op = "settle" /\ ~SessionEnded)
    => LET os == hist.settleOrders
       IN  /\ totalWin = result.totalWin + TipsOwed(os, currentBet)
           /\ balance = hist.settleBalance + result.totalWin + TipsOwed(os, currentBet)
           /\ orders # << >>
                => /\ DOMAIN orders = DOMAIN os
                   /\ \A i \in DOMAIN os :
                        orders[i] = [os[i] EXCEPT !.completed = os[i].completed \/ Met(os[i])]
           /\ orders = << >> => \A i \in DOMAIN os : ~Met(os[i])

\* A spin outside free-spin mode has completed that met its order and paid
\* the order's tip besides the cluster payouts.
C24_Witness ==
  /\ last.op = "settle"
  /\ ~hist.settleFreeSpins
  /\ Len(orders) = 1
  /\ Met(hist.settleOrders[1])
  /\ orders[1].completed
  /\ result.totalWin > 0
  /\ totalWin = result.totalWin + currentBet * orders[1].tipMultiplier

\* C25: outside free-spin mode at most one order is active; a spin that
\* starts outside free-spin mode starts with no order carried over (its order,
\* if any, is new); and after a spin that started and ended outside free-spin
\* mode orders is empty or holds exactly one order, completed in that spin.
C25_NormalOrdersLiveOneSpin ==
  /\ ~isFreeSpins => Len(orders) <= 1
  /\ (last.op = "spin" /\ last.outcome = "pending" /\ ~hist.startFreeSpins)
       => \A i \in DOMAIN orders : orders[i].collected = 0 /\ ~orders[i].completed
  /\ (last.op = "settle" /\ ~hist.startFreeSpins /\ ~isFreeSpins)
       => \/ orders = << >>
          \/ /\ Len(orders) = 1
             /\ orders[1].completed
             /\ Met(hist.settleOrders[1])

\* A spin outside free-spin mode has completed with its order not met, and
\* the order is gone.
C25_Witness ==
  /\ last.op = "settle"
  /\ ~hist.startFreeSpins
  /\ ~isFreeSpins
  /\ Len(hist.settleOrders) = 1
  /\ ~Met(hist.settleOrders[1])
  /\ result.cascades > 0
  /\ orders = << >>

\* The step belongs to a spin: its start, a cascade step, its completion.
SpinStep == last'.op \in {"spin", "cascade", "settle"}

\* C26 (under SessionSpec): a step of a spin that begins and ends in free-spin
\* mode neither clears, replaces nor adds orders: the list keeps its length,
\* each order its symbolId, quantity and tipMultiplier; collected only grows
\* (it accumulates over the spins of the session) and completed only rises.
C26_SessionKeepsOrders ==
  [][(SpinStep /\ isFreeSpins /\ isFreeSpins')
       => /\ DOMAIN orders' = DOMAIN orders
          /\ \A i \in DOMAIN orders :
               /\ orders'[i].symbolId = orders[i].symbolId
               /\ orders'[i].quantity = orders[i].quantity
               /\ orders'[i].tipMultiplier = orders[i].tipMultiplier
               /\ orders'[i].collected >= orders[i].collected
               /\ orders[i].completed => orders'[i].completed]_vars

\* A spin of a session has completed and the session goes on: the orders
\* that an earlier spin had brought to 8 of 15 are now at 15 and completed,
\* and the order without progress is still there.
C26_Witness ==
  /\ last.op = "settle"
  /\ hist.settleFreeSpins
  /\ isFreeSpins
  /\ freeSpinsRemaining = 1
  /\ Len(orders) = 3
  /\ \E i \in DOMAIN orders :
       /\ orders[i].quantity = 15
       /\ orders[i].collected = 15
       /\ orders[i].completed
  /\ \E j \in DOMAIN orders : orders[j].collected = 0 /\ ~orders[j].completed

\* C27: a spin started under ante mode high outside free-spin mode has
\* exactly one order, new, when its grid is generated, and one order through
\* all its cascade steps.
C27_HighAnteAlwaysOrders ==
  (hist.startAnte = "high" /\ ~hist.startFreeSpins)
    => /\ (last.op = "spin" /\ last.outcome = "pending")
            => /\ Len(orders) = 1
               /\ orders[1].collected = 0
               /\ ~orders[1].completed
       /\ last.op = "cascade" => Len(orders) = 1

\* A spin under ante mode high is in its cascades and its order has progress.
C27_Witness ==
  /\ hist.startAnte = "high"
  /\ ~hist.startFreeSpins
  /\ last.op = "cascade"
  /\ Len(orders) = 1
  /\ orders[1].collected > 0

\* The ids of the README's nine food symbols.
FoodNames == {"burger", "drink", "pie", "pizza", "taco", "fries", "burrito", "hotdog", "chicken"}

\* What README.md states of a package: spins, orders, tip multipliers.
Offer(packageType) ==
  IF packageType = "cheap"
  THEN [spins |-> 5, orders |-> 3, tips |-> {2, 3, 5}]
  ELSE [spins |-> 10, orders |-> 6, tips |-> {2, 3, 5, 10, 25, 50}]

\* C28: a purchase that succeeds takes pkg.cost * currentBet from balance
\* whatever the ante mode, sets isFreeSpins and freeSpinsRemaining = pkg.spins,
\* and replaces orders by min(pkg.maxOrders, 6) new orders on food symbols,
\* with collected 0, completed false and a tip multiplier of the package;
\* grid, currentBet, anteMode and totalWin stay as they were.
C28_PurchaseEffects ==
  [][(last'.op = "buyFreeSpins" /\ last'.outcome = "ok")
       => LET offer == Offer(last'.arg)
          IN  /\ balance' = balance - PackagePrice(last'.arg)
              /\ isFreeSpins'
              /\ freeSpinsRemaining' = offer.spins
              /\ Len(orders') = offer.orders
              /\ \A i \in DOMAIN orders' :
                   /\ orders'[i].symbolId \in FoodNames
                   /\ orders'[i].collected = 0
                   /\ ~orders'[i].completed
                   /\ orders'[i].tipMultiplier \in offer.tips
                   /\ orders'[i].quantity \in 8..15
              /\ UNCHANGED <<grid, currentBet, anteMode, totalWin>>]_vars

\* A standard package has been bought under ante mode high.
C28_Witness ==
  /\ last.op = "buyFreeSpins"
  /\ last.outcome = "ok"
  /\ last.arg = "standard"
  /\ anteMode = "high"
  /\ isFreeSpins
  /\ freeSpinsRemaining = 10
  /\ Len(orders) = 6

\* The cluster winnings of the latest spin, from its cascade history.
ClusterWinnings ==
  PayoutSum(StepWins(cascadeSteps, Len(cascadeSteps)), Len(StepWins(cascadeSteps, Len(cascadeSteps))))

\* The super bonus the latest spin has paid.
BonusPaid ==
  IF /\ SessionEnded
     /\ Len(hist.settleOrders) > 0
     /\ \A i \in DOMAIN hist.settleOrders : Served(hist.settleOrders[i])
  THEN currentBet * 100
  ELSE 0

\* No call that changes the state came between the spin's start and its end.
Uninterleaved == ops = hist.startOps

\* C29 (under SessionSpec): after a completed spin with no other operation interleaved, balance
\* is the balance at the spin's entry, less currentBet times 1, 1.25 or 5 by
\* the ante mode at entry, plus totalWin; and totalWin is the sum of the
\* spin's cluster winnings, tips and super bonus.  Free spins are debited too.
C29_SpinAccounting ==
  (last.op = "settle" /\ Uninterleaved)
    => /\ balance = hist.startBalance - PriceOf(hist.startBet, hist.startAnte) + totalWin
       /\ totalWin = ClusterWinnings + TipsOwed(hist.settleOrders, currentBet) + BonusPaid

\* The last spin of a free-spin session has completed with cluster winnings,
\* tips and the super bonus, and nothing came in between.
C29_Witness ==
  /\ last.op = "settle"
  /\ Uninterleaved
  /\ hist.startFreeSpins
  /\ ClusterWinnings > 0
  /\ TipsOwed(hist.settleOrders, currentBet) > 0
  /\ BonusPaid > 0
  /\ balance = hist.startBalance - currentBet + totalWin

\* C30: currentBet is within [minBet, maxBet] = [$1, $100] in every reachable
\* state; setBet(amount) stores an amount within the range, ignores any other
\* without reporting anything, and changes no other field.
C30_SetBet ==
  /\ [](currentBet >= 1 * 4 /\ currentBet <= 100 * 4)
  /\ [][last'.op = "setBet"
          => /\ last'.outcome = "ok"
             /\ last'.arg = "1" => currentBet' = 1 * 4
             /\ last'.arg \in {"0", "101"} => currentBet' = currentBet
             /\ UNCHANGED <<grid, balance, totalWin, isSpinning, isFreeSpins, freeSpinsRemaining,
                            orders, anteMode, cascadeSteps, pc, result>>]_vars

\* setBet(1) has been accepted and a later setBet(101) ignored.
C30_Witness ==
  /\ last.op = "setBet"
  /\ last.arg = "101"
  /\ last.outcome = "ok"
  /\ currentBet = 1 * 4

\* The engine is as its constructor left it: no call has been made and the
\* balance is not one that earlier play has brought down.
Fresh == last.op = "new" /\ balance \notin {b * Dollar : b \in LowBalances}

\* C33: a freshly constructed engine is idle with a balance of $1,000, the
\* default bet of 10, totalWin 0, no spin in flight, no free spins, no
\* orders, ante mode none, no cascade history and a full grid without scatter.
C33_FreshEngine ==
  Fresh
    => /\ balance = 1000 * 4
       /\ currentBet = 10 * 4
       /\ totalWin = 0
       /\ ~isSpinning
       /\ pc = "idle"
       /\ ~isFreeSpins
       /\ freeSpinsRemaining = 0
       /\ orders = << >>
       /\ anteMode = "none"
       /\ cascadeSteps = << >>
       /\ IsFull(grid)
       /\ CountOf(grid, "scatter") = 0

RECURSIVE CountSum(_)
\* The sum of the counts of wins.
CountSum(wins) == IF wins = << >> THEN 0 ELSE Head(wins).count + CountSum(Tail(wins))

\* C34: in every cascade step gridAfterRemoval is empty at exactly the
\* positions of the cells of the step's wins and equal to gridBeforeRemoval
\* elsewhere; the cells removed number the sum of the win counts, and none of
\* them is a scatter or a cell of a symbol that did not win.
C34_RemoveClearsExactlyWins ==
  \A k \in DOMAIN cascadeSteps :
    LET step == cascadeSteps[k]
        won  == {p \in Positions : \E w \in DOMAIN step.wins : \E i \in DOMAIN step.wins[w].cells :
                                     p = <<step.wins[w].cells[i].row, step.wins[w].cells[i].col>>}
    IN  /\ \A p \in Positions :
             step.gridAfterRemoval[p[1]][p[2]] =
               IF p \in won THEN Null ELSE step.gridBeforeRemoval[p[1]][p[2]]
        /\ Cardinality(EmptyCells(step.gridAfterRemoval)) = CountSum(step.wins)
        /\ \A p \in EmptyCells(step.gridAfterRemoval) :
             /\ step.gridBeforeRemoval[p[1]][p[2]] # Null
             /\ step.gridBeforeRemoval[p[1]][p[2]].symbol # "scatter"
             /\ \E w \in DOMAIN step.wins :
                  step.wins[w].symbol = step.gridBeforeRemoval[p[1]][p[2]].symbol

\* A second cascade step has removed a win that lies partly in row 0, and
\* cells of other symbols are still in place.
C34_Witness ==
  /\ Len(cascadeSteps) = 2
  /\ \E c \in 0..5 : cascadeSteps[2].gridAfterRemoval[0][c] = Null
  /\ \E p \in Positions : cascadeSteps[2].gridAfterRemoval[p[1]][p[2]] # Null
  /\ CountSum(cascadeSteps[2].wins) >= 8

\* C35: the cascade history of the latest spin replays it without a gap: the
\* first step starts from the spin's initial grid, each step starts from the
\* grid the step before it ended with, the last step ends with the live grid
\* (with no step, the live grid is the initial grid); and within a step the
\* fill leaves every cell that the drop left in place.
C35_HistoryIsContinuous ==
  hist.startGrid # << >>
    => LET n == Len(cascadeSteps)
       IN  /\ n = 0 => grid = hist.startGrid
           /\ n > 0 => /\ cascadeSteps[1].gridBeforeRemoval = hist.startGrid
                       /\ cascadeSteps[n].gridAfterFill = grid
           /\ \A k \in 1..(n - 1) :
                cascadeSteps[k].gridAfterFill = cascadeSteps[k + 1].gridBeforeRemoval
           /\ \A k \in 1..n : \A p \in Positions :
                cascadeSteps[k].gridAfterDrop[p[1]][p[2]] # Null
                  => cascadeSteps[k].gridAfterFill[p[1]][p[2]]
                       = cascadeSteps[k].gridAfterDrop[p[1]][p[2]]

\* A spin has completed after two cascade steps, each of which changed the
\* grid.
C35_Witness ==
  /\ last.op = "settle"
  /\ Len(cascadeSteps) = 2
  /\ cascadeSteps[1].gridAfterFill # hist.startGrid
  /\ cascadeSteps[2].gridAfterFill # cascadeSteps[1].gridAfterFill
  /\ grid = cascadeSteps[2].gridAfterFill

\* C36 (under SessionSpec): whenever no spin is in flight isFreeSpins is true
\* iff freeSpinsRemaining > 0; and freeSpinsRemaining is never negative and
\* never above 10, the largest spin count configured.
C36_FlagMatchesCounter ==
  /\ (pc = "idle" /\ ~isSpinning) => (isFreeSpins <=> freeSpinsRemaining > 0)
  /\ freeSpinsRemaining >= 0
  /\ freeSpinsRemaining <= 10

\* A standard package has been bought during a session that had a spin left.
C36_Witness ==
  /\ last.op = "buyFreeSpins"
  /\ last.outcome = "ok"
  /\ last.arg = "standard"
  /\ pc = "idle"
  /\ ops = 1
  /\ hist.settleFreeSpins
  /\ hist.settleRemaining = 2
  /\ isFreeSpins
  /\ freeSpinsRemaining = 10

\* C37: one spin uses one bet: when a spin completes, its totalWin is its
\* cluster winnings plus its tips and its super bonus, each scaled by the
\* currentBet that was debited at the spin's start, whatever setBet calls
\* came between the start and the completion.
C37_OneBetPerSpin ==
  last.op = "settle"
    => totalWin = ClusterWinnings + TipsOwed(hist.settleOrders, hist.startBet)
                    + (IF BonusPaid > 0 THEN hist.startBet * 100 ELSE 0)

\* What the holder of the snapshot reads in a field.
Held(field) ==
  IF probe.fields[field].own THEN probe.fields[field].value ELSE Live(field)

\* The snapshot as its holder reads it, field by field.
Snapshot == [field \in ObjectFields \cup ScalarFields |-> Held(field)]

C32_CompletionBeforeTrigger ==
  last.op = "settle"
    => \E i, j \in DOMAIN hist.settleCalls :
         /\ i < j
         /\ hist.settleCalls[i] = "checkOrderCompletion"
         /\ hist.settleCalls[j] = "checkFreeSpinsTrigger"

(***************************************************************************)
(* Properties of the pure functions (under PureSpec)                       *)
(***************************************************************************)
\* The positions of g that hold a cell of symbol sid.
CellsOf(g, sid) == {p \in Positions : g[p[1]][p[2]] # Null /\ g[p[1]][p[2]].symbol = sid}

WinsOf(wins, sid) == {k \in DOMAIN wins : wins[k].symbol = sid}

\* C9: on every grid, detection returns a WinInfo for symbol s iff s is not
\* the scatter and at least 8 non-empty cells hold s; its count is that
\* number and its cells are exactly those positions; there is at most one
\* WinInfo per symbol, and none for the scatter however many cells it has.
C9_DetectionIsClusterPayById ==
  (probe.fn = "detect" /\ probe.done)
    => /\ \A sid \in SymbolIds :
            /\ (WinsOf(probe.wins, sid) # {})
                 <=> (sid # "scatter" /\ Cardinality(CellsOf(probe.grid, sid)) >= 8)
            /\ Cardinality(WinsOf(probe.wins, sid)) <= 1
       /\ \A k \in DOMAIN probe.wins :
            LET win == probe.wins[k]
            IN  /\ win.symbol \in SymbolIds
                /\ win.count = Cardinality(CellsOf(probe.grid, win.symbol))
                /\ Len(win.cells) = win.count
                /\ {<<win.cells[i].row, win.cells[i].col>> : i \in DOMAIN win.cells}
                     = CellsOf(probe.grid, win.symbol)

\* Detection has run on a grid with 8 cells of one symbol (its only win), 7 of
\* another, 9 scatters and empty positions.
C9_Witness ==
  /\ probe.fn = "detect"
  /\ probe.done
  /\ Cardinality(CellsOf(probe.grid, "burger")) = 8
  /\ Cardinality(CellsOf(probe.grid, "drink")) = 7
  /\ Cardinality(CellsOf(probe.grid, "scatter")) = 9
  /\ \E p \in Positions : probe.grid[p[1]][p[2]] = Null
  /\ Len(probe.wins) = 1
  /\ probe.wins[1].symbol = "burger"

\* The tier a count selects: "12+" from 12, "10-11" for 10 and 11, "8-9" for
\* 8 and 9, none below 8.
TierOf(count) ==
  IF count >= 12 THEN "12+"
  ELSE IF count \in {10, 11} THEN "10-11"
  ELSE IF count \in {8, 9} THEN "8-9"
  ELSE "none"

\* C10: payout(symbol, count) is the symbol's entry for the one tier the count
\* selects; it is 0 for a count below 8, for a symbol without payouts table
\* and for a table without that tier's entry, whatever the other tiers hold.
C10_PayoutIsTierLookup ==
  (probe.fn = "payout" /\ probe.done)
    => LET tier == TierOf(probe.count)
       IN  /\ probe.payout >= 0
           /\ (tier = "none" \/ ~probe.symbol.hasPayouts) => probe.payout = 0
           /\ (tier # "none" /\ probe.symbol.hasPayouts)
                => probe.payout = (IF probe.symbol.payouts[tier] = -1 THEN 0
                                   ELSE probe.symbol.payouts[tier])

\* A count of 12 was paid 0 on a table without a "12+" entry that has the two
\* lower tiers.
C10_Witness ==
  /\ probe.fn = "payout"
  /\ probe.done
  /\ probe.count = 12
  /\ probe.symbol.hasPayouts
  /\ probe.symbol.payouts["12+"] = -1
  /\ probe.symbol.payouts["10-11"] = 25
  /\ probe.symbol.payouts["8-9"] = 10
  /\ probe.payout = 0

\* The non-empty cells of column c of g, top to bottom.
ColumnCells(g, c) == SelectSeq([i \in 1..5 |-> g[i - 1][c]], LAMBDA cell : cell # Null)

Ids(cells) == [i \in DOMAIN cells |-> <<cells[i].id, cells[i].symbol>>]

\* C13: for every column, the top-to-bottom sequence of cells (by cell id) of
\* the dropped grid is that of the same column before the drop, so no cell
\* changes column or overtakes another; after the drop no empty position of a
\* column lies below a cell.
C13_DropKeepsColumnsAndOrder ==
  (probe.fn = "drop" /\ probe.done)
    => \A c \in 0..5 :
         /\ Ids(ColumnCells(probe.dropped, c)) = Ids(ColumnCells(probe.grid, c))
         /\ \A r \in 1..4 :
              probe.dropped[r][c] = Null => probe.dropped[r - 1][c] = Null

\* A drop has moved two cells of one column down past an empty position, and
\* left another column as it was.
C13_Witness ==
  /\ probe.fn = "drop"
  /\ probe.done
  /\ \E c \in 0..5 :
       /\ Len(ColumnCells(probe.grid, c)) >= 2
       /\ probe.grid[4][c] = Null
       /\ probe.dropped[4][c] # Null
       /\ probe.dropped[4][c].row = 4
       /\ Cardinality({r \in 0..4 : probe.grid[r][c] # Null
                                     /\ probe.dropped[r][c] # probe.grid[r][c]}) >= 2
  /\ \E c \in 0..5 : \A r \in 0..4 : probe.dropped[r][c] = probe.grid[r][c]

====
